---- MODULE Spec2Model ----
(***************************************************************************)
(* Model of video_frame_extractor: VideoFrameExtractor.run (coordinator),  *)
(* VideoFrameExtractor.extract_frames (Sampler) and VideoPlayer.play       *)
(* (Playback Controller).                                                  *)
(*                                                                         *)
(* Times (start_time, end_time, interval) are rationals k/TimeDen seconds  *)
(* and are stored as the numerator k; frame_rate is a positive integer.    *)
(* int(t * fps) is therefore (k * fps) \div TimeDen.                       *)
(* An optional value (Python None) is a sequence of length 0 or 1.         *)
(*                                                                         *)
(* Spec       run() on an extractor built from valid arguments             *)
(* SpecEntry  cli.main / app.main / the library constructor / a with block *)
(*            around run(), arguments as the caller passes them            *)
(* SpecPlay   VideoPlayer.play alone, every iteration observed             *)
(* SpecArith  the frame arithmetic of extract_frames on a finer time grid  *)
(***************************************************************************)
EXTENDS Integers, Sequences, FiniteSets, TLC

\* ---------------------------------------------------------------- bounds
MaxFps == 2
MaxFrames == 4
TimeDen == 2
MaxStart == 2
MaxEnd == 3
MaxInterval == 2
\* entry points: how far below zero an argument may be, size of the source
NegArgs == 2
EntryFrames == 2
\* playback alone: a source longer than one 10-second skip at 1 fps
PlayFrames == 13
\* frame arithmetic alone: times are k/ArithDen seconds, k <= ArithMaxNum
ArithMaxFps == 10
ArithDen == 100
ArithMaxNum == 20
ArithFrames == 3
\* frame and max_width sizes in pixels
ArithMaxDim == 6
\* termination: size of the source, number of commands the input delivers
LiveFrames == 3
MaxKeys == 2

\* ------------------------------------------------------- program constants
\* player.py: 'f' / 'b' move by int(10 * fps) frames
SkipSeconds == 10
\* extractor.py:36 default JPEG quality; 46: the clamp's ends
DefaultQuality == 95
MinQuality == 1
MaxQuality == 100

VARIABLES
    cfg,            \* constructor / run arguments and the source's properties
    pc,             \* position of the main thread inside run()
    ret,            \* value returned by run(): "none" until it returns
    interrupted,    \* "no", or a KeyboardInterrupt hit with "tasks_idle" / "tasks_active"
    video_path,     \* self.video_path is set
    videoFile,      \* the downloaded file: "absent", "partial", "good", "corrupt"
    metadata,       \* self.metadata: [present, frames_extracted (optional)]
    metaWrites,     \* number of times video_metadata.json was written
    reports,        \* 'Frames Extracted' values written to extraction_report.txt
    log,            \* set of log messages emitted so far
    s_pc,           \* Sampler (extract_frames): "idle","open","loop","done","killed"
    s_ret,          \* return value of extract_frames (optional)
    frame_count,    \* extract_frames local
    saved_count,    \* extract_frames local
    files,          \* frame files on disk, in the order written
    faults,         \* history: the read / write failures the Sampler met
    caps,           \* position of each open decode handle
    p_pc,           \* Playback: "idle","loop","done","killed"
    paused,         \* play() local
    current_frame,  \* play() local
    is_playing,     \* VideoPlayer.is_playing
    entry,          \* who drives the extractor: "api", "cli", "app", "with"
    exit_code,      \* process exit status of the entry point (optional)
    ctx,            \* the with-statement: exception leaving it, failed removal
    obs,            \* last playback iteration: key polled, frame read / rendered
    calc,           \* frame arithmetic: inputs drawn, results computed
    keys_left       \* commands the playback input will still deliver

vars == <<cfg, pc, ret, interrupted, video_path, videoFile, metadata, metaWrites,
          reports, log, s_pc, s_ret, frame_count, saved_count, files, faults,
          caps, p_pc, paused, current_frame, is_playing,
          entry, exit_code, ctx, obs, calc, keys_left>>

mainVars == <<pc, ret, interrupted, video_path, videoFile, metadata, metaWrites,
              reports, log>>
samplerVars == <<s_pc, s_ret, frame_count, saved_count, files, faults>>
playerVars == <<p_pc, paused, current_frame, is_playing>>
entryVars == <<entry, exit_code, ctx>>
extVars == <<entry, exit_code, ctx, obs, calc, keys_left>>

\* ------------------------------------------------------------ helpers
Min(a, b) == IF a < b THEN a ELSE b
Max(a, b) == IF a > b THEN a ELSE b

NoneVal == <<>>
Some(v) == <<v>>
IsSet(o) == Len(o) = 1
\* Python truthiness of an optional number: None and 0 are both falsy
Truthy(o) == IsSet(o) /\ o[1] # 0

\* Python int() of the rational num/den (den > 0): truncation toward zero
PyInt(num, den) == IF num >= 0 THEN num \div den ELSE -((-num) \div den)

\* Python a % m for integers, m # 0: the result has the sign of m
PyMod(a, m) == IF m > 0 THEN a % m ELSE -((-a) % (-m))

\* int(t * fps) for t = k/den
IntTimesFpsOver(k, fps, den) == PyInt(k * fps, den)
IntTimesFps(k, fps) == IntTimesFpsOver(k, fps, TimeDen)

\* extractor.py:179 / player.py:85, times being k/den seconds
StartFrameOver(c, den) ==
    IF c.start_time > 0 THEN IntTimesFpsOver(c.start_time, c.fps, den) ELSE 0
start_frame(c) == StartFrameOver(c, TimeDen)

\* extractor.py:180-181
EndFrameOver(c, den) ==
    Min(IF Truthy(c.end_time) THEN IntTimesFpsOver(c.end_time[1], c.fps, den)
                              ELSE c.total_frames,
        c.total_frames)
end_frame(c) == EndFrameOver(c, TimeDen)

\* extractor.py:189
IntervalFramesOver(c, den) == IntTimesFpsOver(c.interval, c.fps, den)
interval_frames(c) == IntervalFramesOver(c, TimeDen)

\* extractor.py:197 (only evaluated with a non-zero interval_frames)
\* mutant: the offset from start_frame is dropped
IsSampledNoOffset(fc, c) == PyMod(fc, interval_frames(c)) = 0
IsSampled(fc, c) == PyMod(fc - start_frame(c), interval_frames(c)) = 0

\* extractor.py:169 and player.py:27: each loop opens its own VideoCapture
SamplerCap == "extract_frames.cap"
\* mutant: playback reuses the Sampler's handle
PlayerCapShared == "extract_frames.cap"
PlayerCap == "play.cap"

\* extractor.py:297
WindowInvalid(c) == Truthy(c.end_time) /\ c.end_time[1] <= c.start_time

SamplerTerminal == s_pc \in {"idle", "done", "killed"}
SamplerRunning == s_pc \in {"open", "loop"}
PlayerTerminal == p_pc \in {"idle", "done", "killed"}
PlayerRunning == p_pc = "loop"

\* ------------------------------------------------------------ initial state
Configs ==
    [fps : 1..MaxFps,
     total_frames : 1..MaxFrames,
     start_time : 0..MaxStart,
     end_time : {NoneVal} \cup {Some(e) : e \in 0..MaxEnd},
     interval : 1..MaxInterval,
     quality : {DefaultQuality},
     play_video : BOOLEAN,
     create_report : BOOLEAN]

\* extractor.py:48-55 the fields __init__ sets besides the arguments, and the
\* locals of run(), extract_frames() and play() before they are assigned
Constructed ==
    /\ ret = "none"
    /\ interrupted = "no"
    /\ video_path = FALSE
    /\ videoFile = "absent"
    /\ metadata = [present |-> FALSE, frames_extracted |-> NoneVal]
    /\ metaWrites = 0
    /\ reports = <<>>
    /\ log = {}
    /\ s_pc = "idle"
    /\ s_ret = NoneVal
    /\ frame_count = 0
    /\ saved_count = 0
    /\ files = <<>>
    /\ faults = [read |-> NoneVal, wfalse |-> {}, wraise |-> NoneVal]
    /\ caps = [h \in {SamplerCap, PlayerCap} |-> 0]
    /\ p_pc = "idle"
    /\ paused = FALSE
    /\ current_frame = 0
    /\ is_playing = FALSE

\* nothing observed, nothing computed, no entry point around run()
NoEntry ==
    /\ exit_code = NoneVal
    /\ ctx = [exc |-> "none", removed |-> FALSE, remove_failed |-> FALSE]
NoObs == obs = [key |-> "-", read |-> FALSE, rendered |-> NoneVal, exit |-> "-"]
NoCalc == calc = <<>>
NoKeyBudget == keys_left = 0

\* run() is called on an extractor built from valid arguments
Init ==
    /\ cfg \in Configs
    /\ pc = "download"
    /\ entry = "api"
    /\ Constructed
    /\ NoEntry
    /\ NoObs
    /\ NoCalc
    /\ NoKeyBudget

\* ------------------------------------------------------------ coordinator
\* extractor.py:57-110 download_video, called at run() line 292.
\* video_path is assigned (line 80) before the request is made (line 82).
DownloadOutcomes == {"good", "corrupt", "fail_nopath", "fail_early", "fail_partial"}

\* mutant: video_path is assigned only once the download has succeeded
PathSetAfterDownload(o) == o \in {"good", "corrupt"}
\* extractor.py:80: every outcome that gets past the file-name computation
PathSet(o) == o # "fail_nopath"

Download ==
    /\ pc = "download"
    /\ \E o \in DownloadOutcomes :
        /\ video_path' = PathSet(o)
        /\ videoFile' = CASE o = "good" -> "good"
                          [] o = "corrupt" -> "corrupt"
                          [] o = "fail_partial" -> "partial"
                          [] OTHER -> "absent"
        /\ IF o \in {"good", "corrupt"}
             THEN /\ pc' = "metadata"
                  /\ log' = log \cup {"downloaded"}
                  /\ ret' = ret
             ELSE /\ pc' = "finally"
                  /\ log' = log \cup {"download_error"}
                  /\ ret' = "false"
    /\ UNCHANGED <<cfg, interrupted, metadata, metaWrites, reports, caps>>
    /\ UNCHANGED <<samplerVars, playerVars>>
    /\ UNCHANGED extVars

\* extractor.py:112-157 get_video_metadata, called at run() line 295
GetVideoMetadata ==
    /\ pc = "metadata"
    /\ IF videoFile = "good"
         THEN /\ metadata' = [present |-> TRUE, frames_extracted |-> NoneVal]
              /\ metaWrites' = metaWrites + 1
         ELSE UNCHANGED <<metadata, metaWrites>>
    /\ pc' = "check"
    /\ UNCHANGED <<cfg, ret, interrupted, video_path, videoFile, reports, log, caps>>
    /\ UNCHANGED <<samplerVars, playerVars>>
    /\ UNCHANGED extVars

\* extractor.py:297-301
CheckWindow ==
    /\ pc = "check"
    /\ IF WindowInvalid(cfg)
         THEN /\ log' = log \cup {"invalid_window"}
              /\ ret' = "false"
              /\ pc' = "finally"
         ELSE /\ pc' = (IF cfg.play_video THEN "spawn" ELSE "extract_call")
              /\ UNCHANGED <<log, ret>>
    /\ UNCHANGED <<cfg, interrupted, video_path, videoFile, metadata, metaWrites,
                   reports, caps>>
    /\ UNCHANGED <<samplerVars, playerVars>>
    /\ UNCHANGED extVars

\* extractor.py:302-303 threading.Thread(target=self.extract_frames).start()
StartThread ==
    /\ pc = "spawn"
    /\ s_pc' = "open"
    /\ pc' = "play"
    /\ UNCHANGED <<cfg, ret, interrupted, video_path, videoFile, metadata,
                   metaWrites, reports, log, caps>>
    /\ UNCHANGED <<s_ret, frame_count, saved_count, files, faults>>
    /\ UNCHANGED playerVars
    /\ UNCHANGED extVars

\* extractor.py:309 self.extract_frames() called in the main thread
ExtractCall ==
    /\ pc = "extract_call"
    /\ s_pc' = "open"
    /\ pc' = "extracting"
    /\ UNCHANGED <<cfg, ret, interrupted, video_path, videoFile, metadata,
                   metaWrites, reports, log, caps>>
    /\ UNCHANGED <<s_ret, frame_count, saved_count, files, faults>>
    /\ UNCHANGED playerVars
    /\ UNCHANGED extVars

\* the synchronous call returns
ExtractReturn ==
    /\ pc = "extracting"
    /\ s_pc = "done"
    /\ pc' = "report"
    /\ UNCHANGED <<cfg, ret, interrupted, video_path, videoFile, metadata,
                   metaWrites, reports, log, caps>>
    /\ UNCHANGED <<samplerVars, playerVars>>
    /\ UNCHANGED extVars

\* extractor.py:307 extraction_thread.join()
\* mutant: the coordinator does not wait for the extraction thread
JoinNoWait == TRUE
JoinReady == s_pc = "done"

Join ==
    /\ pc = "join"
    /\ JoinReady
    /\ pc' = "report"
    /\ UNCHANGED <<cfg, ret, interrupted, video_path, videoFile, metadata,
                   metaWrites, reports, log, caps>>
    /\ UNCHANGED <<samplerVars, playerVars>>
    /\ UNCHANGED extVars

\* extractor.py:262 self.metadata.get('frames_extracted', 0)
ReportedFrames(m) == IF IsSet(m.frames_extracted) THEN m.frames_extracted[1] ELSE 0

\* extractor.py:311-315 (create_summary_report: lines 243-276)
Report ==
    /\ pc = "report"
    /\ IF cfg.create_report
         THEN /\ reports' = Append(reports, ReportedFrames(metadata))
              /\ log' = log \cup {"report_created", "success"}
         ELSE /\ reports' = reports
              /\ log' = log \cup {"success"}
    /\ ret' = "true"
    /\ pc' = "finally"
    /\ UNCHANGED <<cfg, interrupted, video_path, videoFile, metadata, metaWrites, caps>>
    /\ UNCHANGED <<samplerVars, playerVars>>
    /\ UNCHANGED extVars

\* extractor.py:323-330 finally: remove the downloaded file; os.remove may raise
Cleanup ==
    /\ pc = "finally"
    /\ IF video_path /\ videoFile # "absent"
         THEN \E removed \in BOOLEAN :
                IF removed
                  THEN /\ videoFile' = "absent"
                       /\ log' = log \cup {"cleaned_up"}
                  ELSE /\ videoFile' = videoFile
                       /\ log' = log \cup {"could_not_remove"}
         ELSE UNCHANGED <<videoFile, log>>
    /\ pc' = "returned"
    /\ UNCHANGED <<cfg, ret, interrupted, video_path, metadata, metaWrites, reports, caps>>
    /\ UNCHANGED <<samplerVars, playerVars>>
    /\ UNCHANGED extVars

\* extractor.py:317-319 except KeyboardInterrupt.  The signal is delivered to the
\* main thread only: whatever the main thread is executing is abandoned
\* (download, play(), a synchronous extract_frames); a started extraction
\* thread is not affected.
InTry == pc \in {"download", "metadata", "check", "spawn", "play", "playing", "join",
                 "extract_call", "extracting", "report"}

Interrupt ==
    /\ InTry
    /\ interrupted = "no"
    /\ interrupted' = (IF SamplerRunning \/ PlayerRunning THEN "tasks_active"
                                                          ELSE "tasks_idle")
    /\ IF pc = "download"
         THEN \E o \in {"fail_nopath", "fail_early", "fail_partial"} :
                /\ video_path' = PathSet(o)
                /\ videoFile' = (IF o = "fail_partial" THEN "partial" ELSE "absent")
         ELSE UNCHANGED <<video_path, videoFile>>
    /\ s_pc' = (IF pc = "extracting" /\ SamplerRunning THEN "killed" ELSE s_pc)
    /\ p_pc' = (IF pc = "playing" /\ p_pc = "loop" THEN "killed" ELSE p_pc)
    /\ log' = log \cup {"interrupted"}
    /\ ret' = "false"
    /\ pc' = "finally"
    /\ UNCHANGED <<cfg, metadata, metaWrites, reports, caps>>
    /\ UNCHANGED <<s_ret, frame_count, saved_count, files, faults>>
    /\ UNCHANGED <<paused, current_frame, is_playing>>
    /\ UNCHANGED extVars


\* ------------------------------------------------------------ decode handles
\* cv2.VideoCapture.read(): a frame is returned when the position is inside the
\* stream and the decoder does not fail; the position then advances by one.
CanRead(h) == caps[h] < cfg.total_frames

\* ------------------------------------------------------------ Sampler
\* extractor.py:166-189: mkdir, open, frame arithmetic, seek to start_frame
SamplerOpen ==
    /\ s_pc = "open"
    /\ IF videoFile # "good"
         THEN /\ log' = log \cup {"could_not_open"}
              /\ s_ret' = Some(0)
              /\ s_pc' = "done"
              /\ UNCHANGED <<frame_count, saved_count, caps>>
         ELSE /\ caps' = [caps EXCEPT ![SamplerCap] = start_frame(cfg)]
              /\ frame_count' = start_frame(cfg)
              /\ saved_count' = 0
              /\ s_pc' = "loop"
              /\ UNCHANGED <<log, s_ret>>
    /\ UNCHANGED <<cfg, pc, ret, interrupted, video_path, videoFile, metadata,
                   metaWrites, reports, files, faults>>
    /\ UNCHANGED playerVars
    /\ UNCHANGED extVars

\* extractor.py:215-219: release, log, metadata['frames_extracted'], return
SamplerReturn ==
    /\ metadata' = [metadata EXCEPT !.frames_extracted = Some(saved_count)]
    /\ s_ret' = Some(saved_count)
    /\ s_pc' = "done"
    /\ log' = log \cup {"extraction_completed"}

\* extractor.py:221-223: except Exception: log the error, return 0
SamplerExcept ==
    /\ s_ret' = Some(0)
    /\ s_pc' = "done"
    /\ log' = log \cup {"error_extracting"}
    /\ UNCHANGED metadata

\* extractor.py:209-211: cv2.imwrite either writes the file, returns False
\* without writing, or raises; its result is not looked at and saved_count is
\* incremented whenever it returns.
WriteOutcomes == {"ok", "false", "raise"}

SavedCountAfterWrite(sc, w) == sc + 1

\* extractor.py:213 frame_count += 1
\* mutant: the loop counter does not advance
NextFrameStuck(fc) == fc
NextFrame(fc) == fc + 1

\* extractor.py:191-213: one iteration of the while loop
SamplerStep ==
    /\ s_pc = "loop"
    /\ frame_count < end_frame(cfg)
    /\ \E readOk \in BOOLEAN, w \in WriteOutcomes :
        IF ~(readOk /\ CanRead(SamplerCap))
          THEN \* if not ret: break
               /\ faults' = IF readOk THEN faults
                             ELSE [faults EXCEPT !.read = Some(frame_count)]
               /\ SamplerReturn
               /\ UNCHANGED <<caps, frame_count, saved_count, files>>
          ELSE /\ caps' = [caps EXCEPT ![SamplerCap] = @ + 1]
               /\ IF interval_frames(cfg) = 0
                    THEN \* integer modulo by zero raises ZeroDivisionError
                         /\ SamplerExcept
                         /\ UNCHANGED <<frame_count, saved_count, files, faults>>
                    ELSE IF ~IsSampled(frame_count, cfg)
                      THEN /\ frame_count' = NextFrame(frame_count)
                           /\ UNCHANGED <<saved_count, files, faults, s_pc, s_ret,
                                          log, metadata>>
                      ELSE CASE w = "ok" ->
                                 /\ files' = Append(files,
                                       [seq |-> saved_count, frame |-> frame_count,
                                        src |-> caps[SamplerCap]])
                                 /\ saved_count' = SavedCountAfterWrite(saved_count, w)
                                 /\ frame_count' = NextFrame(frame_count)
                                 /\ UNCHANGED <<faults, s_pc, s_ret, log, metadata>>
                             [] w = "false" ->
                                 /\ faults' = [faults EXCEPT
                                                 !.wfalse = @ \cup {frame_count}]
                                 /\ saved_count' = SavedCountAfterWrite(saved_count, w)
                                 /\ frame_count' = NextFrame(frame_count)
                                 /\ UNCHANGED <<files, s_pc, s_ret, log, metadata>>
                             [] OTHER ->
                                 /\ faults' = [faults EXCEPT
                                                 !.wraise = Some(frame_count)]
                                 /\ SamplerExcept
                                 /\ UNCHANGED <<frame_count, saved_count, files>>
    /\ UNCHANGED <<cfg, pc, ret, interrupted, video_path, videoFile, metaWrites,
                   reports>>
    /\ UNCHANGED playerVars
    /\ UNCHANGED extVars

\* extractor.py:191 loop condition false, then 215-219
SamplerFinish ==
    /\ s_pc = "loop"
    /\ ~(frame_count < end_frame(cfg))
    /\ SamplerReturn
    /\ UNCHANGED <<cfg, pc, ret, interrupted, video_path, videoFile, metaWrites,
                   reports, frame_count, saved_count, files, faults, caps>>
    /\ UNCHANGED playerVars
    /\ UNCHANGED extVars

\* ------------------------------------------------------------ Playback
\* extractor.py:232-241 play_video, player.py:26-48 play() up to the loop
PlayEnter ==
    /\ pc = "play"
    /\ IF ~video_path \/ videoFile = "absent"
         THEN /\ log' = log \cup {"video_not_found"}
              /\ pc' = "join"
              /\ p_pc' = "done"
              /\ UNCHANGED <<caps, paused, current_frame, is_playing>>
         ELSE IF videoFile # "good"
           THEN /\ log' = log \cup {"could_not_open_playback"}
                /\ pc' = "join"
                /\ p_pc' = "done"
                /\ UNCHANGED <<caps, paused, current_frame, is_playing>>
           ELSE /\ is_playing' = TRUE
                /\ caps' = [caps EXCEPT ![PlayerCap] =
                              IF cfg.start_time > 0 THEN start_frame(cfg) ELSE 0]
                /\ paused' = FALSE
                /\ current_frame' = caps'[PlayerCap]
                /\ p_pc' = "loop"
                /\ pc' = "playing"
                /\ log' = log
    /\ UNCHANGED <<cfg, ret, interrupted, video_path, videoFile, metadata,
                   metaWrites, reports>>
    /\ UNCHANGED samplerVars
    /\ UNCHANGED extVars

Keys == {"none", "q", "p", "r", "f", "b"}

\* player.py:55 end_time and current_frame >= end_time * fps
PastEnd(cf, c) == Truthy(c.end_time) /\ cf * TimeDen >= c.end_time[1] * c.fps

\* player.py:101-103 release, destroyAllWindows, is_playing = False
PlayExit ==
    /\ is_playing' = FALSE
    /\ p_pc' = "done"
    /\ pc' = "join"

\* player.py:91 new_frame of 'f'
\* mutant: the forward target is not clamped to the last frame
ForwardTargetUnclamped(cf, c) == cf + SkipSeconds * c.fps
ForwardTarget(cf, c) == Min(cf + SkipSeconds * c.fps, c.total_frames - 1)

\* player.py:96 new_frame of 'b'
BackwardTarget(cf, c) == Max(cf - SkipSeconds * c.fps, 0)

\* player.py:75-99 the key handler, run with the position and current_frame
\* left by the first half of the iteration
HandleKey(key, pos, cf) ==
    CASE key = "q" ->
           /\ PlayExit
           /\ caps' = [caps EXCEPT ![PlayerCap] = pos]
           /\ paused' = paused
      [] key = "p" ->
           /\ paused' = ~paused
           /\ caps' = [caps EXCEPT ![PlayerCap] = pos]
           /\ UNCHANGED <<is_playing, p_pc, pc>>
      [] key = "r" ->
           /\ caps' = [caps EXCEPT ![PlayerCap] = start_frame(cfg)]
           /\ paused' = FALSE
           /\ UNCHANGED <<is_playing, p_pc, pc>>
      [] key = "f" ->
           /\ caps' = [caps EXCEPT ![PlayerCap] = ForwardTarget(cf, cfg)]
           /\ UNCHANGED <<paused, is_playing, p_pc, pc>>
      [] key = "b" ->
           /\ caps' = [caps EXCEPT ![PlayerCap] = BackwardTarget(cf, cfg)]
           /\ UNCHANGED <<paused, is_playing, p_pc, pc>>
      [] OTHER ->
           /\ caps' = [caps EXCEPT ![PlayerCap] = pos]
           /\ UNCHANGED <<paused, is_playing, p_pc, pc>>

\* extractor.py:305-307: play() caught its own exception, so play_video()
\* returns normally and run() goes on to join the extraction thread
\* mutant: the exception reaches run() and sends it to its finally block
AfterPlayErrorAborts == "finally"
AfterPlayError == "join"

\* player.py:105-106 except Exception: the error is logged and play() returns;
\* lines 101-103 are skipped, so the handle is not released and is_playing
\* keeps the value True
PlayExcept ==
    /\ log' = log \cup {"error_playing"}
    /\ p_pc' = "done"
    /\ pc' = AfterPlayError
    /\ is_playing' = is_playing

\* player.py:51 the frame is read and shown only when not paused
\* mutant: the frame is read and shown on every iteration
ReadsFrameAlways(pz) == TRUE
ReadsFrame(pz) == ~pz

\* player.py:50-75: what one iteration does before its key handler, given the
\* key waitKey will return and whether the decoder and the display work.
\*   read     cap.read() was called (line 52)
\*   rendered index of the frame passed to cv2.imshow (line 73), if any
\*   exit     "eos" / "end_time": break at line 56; "error": putText / imshow
\*            raised (lines 70-73); "-": the iteration went on to waitKey
\*   key      the key waitKey returned (line 75), "-" when it was not called
\*   pos, cf  handle position and current_frame after lines 52-53
Iteration(key, readOk, renderOk) ==
    IF ~ReadsFrame(paused)
      THEN [read |-> FALSE, rendered |-> NoneVal, exit |-> "-", key |-> key,
            pos |-> caps[PlayerCap], cf |-> current_frame]
      ELSE LET ok == readOk /\ CanRead(PlayerCap)
               pos == IF ok THEN caps[PlayerCap] + 1 ELSE caps[PlayerCap]
               base == [read |-> TRUE, rendered |-> NoneVal, exit |-> "-",
                        key |-> "-", pos |-> pos, cf |-> pos]
           IN IF ~ok THEN [base EXCEPT !.exit = "eos"]
              ELSE IF PastEnd(pos, cfg) THEN [base EXCEPT !.exit = "end_time"]
              ELSE IF ~renderOk THEN [base EXCEPT !.exit = "error"]
              ELSE [base EXCEPT !.rendered = Some(caps[PlayerCap]), !.key = key]

\* player.py:50-99: the state change of one iteration it
PlayIter(it) ==
    /\ current_frame' = it.cf
    /\ CASE it.exit \in {"eos", "end_time"} ->
               /\ PlayExit
               /\ caps' = [caps EXCEPT ![PlayerCap] = it.pos]
               /\ UNCHANGED <<paused, log>>
          [] it.exit = "error" ->
               /\ PlayExcept
               /\ caps' = [caps EXCEPT ![PlayerCap] = it.pos]
               /\ UNCHANGED paused
          [] OTHER ->
               /\ HandleKey(it.key, it.pos, it.cf)
               /\ UNCHANGED log
    /\ UNCHANGED <<cfg, ret, interrupted, video_path, videoFile, metadata,
                   metaWrites, reports>>
    /\ UNCHANGED samplerVars

\* what an observer of the iteration sees
Observed(it) ==
    [key |-> it.key, read |-> it.read, rendered |-> it.rendered,
     exit |-> IF it.exit = "-" /\ it.key = "q" THEN "quit" ELSE it.exit]

\* player.py:50-99: one iteration of the while loop
PlayStep ==
    /\ pc = "playing"
    /\ p_pc = "loop"
    /\ \E key \in Keys, readOk \in BOOLEAN, renderOk \in BOOLEAN :
        PlayIter(Iteration(key, readOk, renderOk))
    /\ UNCHANGED extVars

\* the same iteration with what it did recorded in obs
PlayStepObserved ==
    /\ pc = "playing"
    /\ p_pc = "loop"
    /\ \E key \in Keys, readOk \in BOOLEAN, renderOk \in BOOLEAN :
        LET it == Iteration(key, readOk, renderOk)
        IN /\ PlayIter(it)
           /\ obs' = Observed(it)
    /\ UNCHANGED <<entry, exit_code, ctx, calc, keys_left>>

\* ------------------------------------------------------------ specification
Next ==
    \/ Download
    \/ GetVideoMetadata
    \/ CheckWindow
    \/ StartThread
    \/ ExtractCall
    \/ ExtractReturn
    \/ PlayEnter
    \/ PlayStep
    \/ Join
    \/ Report
    \/ Cleanup
    \/ Interrupt
    \/ SamplerOpen
    \/ SamplerStep
    \/ SamplerFinish

Spec == Init /\ [][Next]_vars



\* ------------------------------------------------------------ entry points
\* cli.py:40-50 and app.py:400-410: the three argument checks of main()
ArgsRejected(c) ==
    \/ c.interval <= 0
    \/ c.start_time < 0
    \/ (Truthy(c.end_time) /\ c.end_time[1] <= c.start_time)

\* cli.py:42,46,50 sys.exit(1); app.py:402,406,410 a bare return, after which
\* the interpreter ends with status 0
RejectStatus(e) == IF e = "cli" THEN 1 ELSE 0

\* cli.py:68 sys.exit(0 if success else 1); app.py:423 exit(0 if success else 1)
RunStatus(r) == IF r = "true" THEN 0 ELSE 1

\* cli.py:40-50 / app.py:400-410
MainValidate ==
    /\ pc = "main"
    /\ IF ArgsRejected(cfg)
         THEN /\ exit_code' = Some(RejectStatus(entry))
              /\ pc' = "exited"
         ELSE /\ exit_code' = exit_code
              /\ pc' = "construct"
    /\ UNCHANGED <<cfg, ret, interrupted, video_path, videoFile, metadata,
                   metaWrites, reports, log, caps>>
    /\ UNCHANGED <<samplerVars, playerVars>>
    /\ UNCHANGED <<entry, ctx, obs, calc, keys_left>>

\* extractor.py:46 self.quality = max(1, min(100, quality))
ClampQuality(q) == Max(MinQuality, Min(MaxQuality, q))
\* extractor.py:48 self.start_time = max(0, start_time)
ClampStart(t) == Max(0, t)
\* extractor.py:44 self.interval = interval
\* (stored as given: no check, no clamp)
StoredInterval(i) == i

\* extractor.py:42-50 __init__; app.py:16-25 __init__ stores every argument as given
Construct ==
    /\ pc = "construct"
    /\ cfg' = IF entry = "app" THEN cfg
              ELSE [cfg EXCEPT !.quality = ClampQuality(@),
                               !.start_time = ClampStart(@),
                               !.interval = StoredInterval(@)]
    /\ pc' = IF entry = "with" THEN "with_body" ELSE "download"
    /\ UNCHANGED <<ret, interrupted, video_path, videoFile, metadata,
                   metaWrites, reports, log, caps>>
    /\ UNCHANGED <<samplerVars, playerVars>>
    /\ UNCHANGED extVars

\* cli.py:63-68 / app.py:422-423: run() has returned, the process exits
MainExit ==
    /\ pc = "returned"
    /\ entry \in {"cli", "app"}
    /\ exit_code' = Some(RunStatus(ret))
    /\ pc' = "exited"
    /\ UNCHANGED <<cfg, ret, interrupted, video_path, videoFile, metadata,
                   metaWrites, reports, log, caps>>
    /\ UNCHANGED <<samplerVars, playerVars>>
    /\ UNCHANGED <<entry, ctx, obs, calc, keys_left>>

\* the body of `with VideoFrameExtractor(...) as extractor:`: it calls run(),
\* or (test_extractor.py:92-96) points video_path at a file, and it may raise
WithBodies == {"run", "assign", "assign_raise", "raise"}

WithBody ==
    /\ pc = "with_body"
    /\ \E b \in WithBodies, exists \in BOOLEAN :
        CASE b = "run" ->
               /\ pc' = "download"
               /\ UNCHANGED <<video_path, videoFile, ctx>>
          [] b \in {"assign", "assign_raise"} ->
               /\ video_path' = TRUE
               /\ videoFile' = (IF exists THEN "good" ELSE "absent")
               /\ ctx' = [ctx EXCEPT !.exc = IF b = "assign" THEN "none" ELSE "body"]
               /\ pc' = "with_exit"
          [] OTHER ->
               /\ ctx' = [ctx EXCEPT !.exc = "body"]
               /\ pc' = "with_exit"
               /\ UNCHANGED <<video_path, videoFile>>
    /\ UNCHANGED <<cfg, ret, interrupted, metadata, metaWrites, reports, log, caps>>
    /\ UNCHANGED <<samplerVars, playerVars>>
    /\ UNCHANGED <<entry, exit_code, obs, calc, keys_left>>

\* extractor.py:339-342 try: os.remove(...) except: pass -- the exception that
\* leaves the with statement is the body's, never the removal's
\* mutant: a failed removal propagates
ExcAfterFailedRemovalRaised(e) == "cleanup"
ExcAfterFailedRemoval(e) == e

\* extractor.py:335-342 __exit__
CtxExit ==
    /\ \/ pc = "with_exit"
       \/ pc = "returned" /\ entry = "with"
    /\ IF video_path /\ videoFile # "absent"
         THEN \E removed \in BOOLEAN :
                IF removed
                  THEN /\ videoFile' = "absent"
                       /\ ctx' = [ctx EXCEPT !.removed = TRUE]
                  ELSE /\ videoFile' = videoFile
                       /\ ctx' = [ctx EXCEPT !.remove_failed = TRUE,
                                             !.exc = ExcAfterFailedRemoval(@)]
         ELSE UNCHANGED <<videoFile, ctx>>
    /\ pc' = "with_left"
    /\ UNCHANGED <<cfg, ret, interrupted, video_path, metadata, metaWrites,
                   reports, log, caps>>
    /\ UNCHANGED <<samplerVars, playerVars>>
    /\ UNCHANGED <<entry, exit_code, obs, calc, keys_left>>

\* arguments as the caller passes them: the library API takes any number,
\* argparse (cli.py:24, app.py:388 choices=range(1, 101)) limits --quality,
\* and app.py's run() has no play / report switches
EntryArgs ==
    [fps : {1},
     total_frames : {EntryFrames},
     start_time : (-NegArgs)..1,
     end_time : {NoneVal} \cup {Some(e) : e \in 0..EntryFrames},
     interval : (-NegArgs)..MaxInterval,
     quality : {MinQuality - 1, DefaultQuality, MaxQuality + 1},
     play_video : BOOLEAN,
     create_report : {TRUE}]

InitEntry ==
    /\ entry \in {"api", "cli", "app", "with"}
    /\ cfg \in EntryArgs
    /\ entry \in {"cli", "app"} => cfg.quality \in MinQuality..MaxQuality
    /\ entry = "app" => cfg.play_video
    /\ pc = (IF entry \in {"cli", "app"} THEN "main" ELSE "construct")
    /\ Constructed
    /\ NoEntry
    /\ NoObs
    /\ NoCalc
    /\ NoKeyBudget

NextEntry ==
    \/ MainValidate
    \/ Construct
    \/ MainExit
    \/ WithBody
    \/ CtxExit
    \/ Next

SpecEntry == InitEntry /\ [][NextEntry]_vars

\* ------------------------------------------------------------ playback alone
\* player.py:15 VideoPlayer.play(video_path, start_time, end_time) called on a
\* file that is on disk, every iteration observed
PlayConfigs ==
    [fps : 1..MaxFps,
     total_frames : {1, PlayFrames},
     start_time : 0..MaxStart,
     end_time : {NoneVal} \cup {Some(e) : e \in 0..MaxEnd}
                    \cup {Some(TimeDen * (PlayFrames - 2))},
     interval : {1},
     quality : {DefaultQuality},
     play_video : {TRUE},
     create_report : {TRUE}]

InitPlay ==
    /\ cfg \in PlayConfigs
    /\ pc = "play"
    /\ entry = "api"
    /\ ret = "none"
    /\ interrupted = "no"
    /\ video_path = TRUE
    /\ videoFile \in {"good", "corrupt"}
    /\ metadata = [present |-> FALSE, frames_extracted |-> NoneVal]
    /\ metaWrites = 0
    /\ reports = <<>>
    /\ log = {}
    /\ s_pc = "idle"
    /\ s_ret = NoneVal
    /\ frame_count = 0
    /\ saved_count = 0
    /\ files = <<>>
    /\ faults = [read |-> NoneVal, wfalse |-> {}, wraise |-> NoneVal]
    /\ caps = [h \in {SamplerCap, PlayerCap} |-> 0]
    /\ p_pc = "idle"
    /\ paused = FALSE
    /\ current_frame = 0
    /\ is_playing = FALSE
    /\ NoEntry
    /\ NoObs
    /\ NoCalc
    /\ NoKeyBudget

NextPlay ==
    \/ PlayEnter
    \/ PlayStepObserved

SpecPlay == InitPlay /\ [][NextPlay]_vars

\* ------------------------------------------------------------ frame arithmetic
\* extractor.py:179-189 applied to arguments drawn from a finer grid of times
\* (k/ArithDen seconds) than the runs above use.  Products are exact rationals.
ArithInputs ==
    [op : {"interval"},
     fps : 1..ArithMaxFps,
     total_frames : {ArithFrames},
     start_time : {0},
     end_time : {NoneVal},
     interval : 0..ArithMaxNum]
    \cup
    [op : {"window"},
     fps : 1..ArithMaxFps,
     total_frames : 1..ArithFrames,
     start_time : 0..ArithMaxNum,
     end_time : {NoneVal} \cup {Some(e) : e \in 0..ArithMaxNum},
     interval : {ArithDen}]
    \cup
    [op : {"resize"},
     width : 1..ArithMaxDim,
     height : 1..ArithMaxDim,
     max_width : {NoneVal} \cup {Some(m) : m \in 1..ArithMaxDim}]

InitArith ==
    /\ calc \in {Some([args |-> a, out |-> NoneVal]) : a \in ArithInputs}
    /\ cfg \in {c \in Configs : c.fps = 1 /\ c.total_frames = 1 /\ c.start_time = 0
                                /\ c.end_time = NoneVal /\ c.interval = 1
                                /\ ~c.play_video /\ ~c.create_report}
    /\ pc = "download"
    /\ entry = "api"
    /\ Constructed
    /\ NoEntry
    /\ NoObs
    /\ NoKeyBudget

\* extractor.py:189
ComputeInterval ==
    /\ calc[1].args.op = "interval"
    /\ ~IsSet(calc[1].out)
    /\ calc' = Some([calc[1] EXCEPT !.out =
                  Some([interval_frames |-> IntervalFramesOver(calc[1].args, ArithDen)])])
    /\ UNCHANGED <<cfg, caps, entry, exit_code, ctx, obs, keys_left>>
    /\ UNCHANGED <<mainVars, samplerVars, playerVars>>

\* extractor.py:179-181
ComputeWindow ==
    /\ calc[1].args.op = "window"
    /\ ~IsSet(calc[1].out)
    /\ calc' = Some([calc[1] EXCEPT !.out =
                  Some([start_frame |-> StartFrameOver(calc[1].args, ArithDen),
                        end_frame |-> EndFrameOver(calc[1].args, ArithDen)])])
    /\ UNCHANGED <<cfg, caps, entry, exit_code, ctx, obs, keys_left>>
    /\ UNCHANGED <<mainVars, samplerVars, playerVars>>

\* extractor.py:200-204: the size of the frame handed to cv2.imwrite.
\* scale = max_width / width is a float; for the sizes drawn here
\* int(height * scale) equals the truncation of the exact quotient.
ResizedSize(a) ==
    IF Truthy(a.max_width) /\ a.width > a.max_width[1]
      THEN [width |-> a.max_width[1],
            height |-> PyInt(a.height * a.max_width[1], a.width)]
      ELSE [width |-> a.width, height |-> a.height]

ComputeResize ==
    /\ calc[1].args.op = "resize"
    /\ ~IsSet(calc[1].out)
    /\ calc' = Some([calc[1] EXCEPT !.out = Some(ResizedSize(calc[1].args))])
    /\ UNCHANGED <<cfg, caps, entry, exit_code, ctx, obs, keys_left>>
    /\ UNCHANGED <<mainVars, samplerVars, playerVars>>

NextArith ==
    \/ ComputeInterval
    \/ ComputeWindow
    \/ ComputeResize

SpecArith == InitArith /\ [][NextArith]_vars

\* ------------------------------------------------------------ termination
\* run() with a playback input that delivers at most MaxKeys commands, under
\* fair scheduling of the main thread and of the extraction thread
LiveConfigs ==
    [fps : {1},
     total_frames : 1..LiveFrames,
     start_time : {0, TimeDen},
     end_time : {NoneVal, Some(2 * TimeDen)},
     interval : {TimeDen},
     quality : {DefaultQuality},
     play_video : BOOLEAN,
     create_report : {TRUE}]

InitLive ==
    /\ cfg \in LiveConfigs
    /\ pc = "download"
    /\ entry = "api"
    /\ Constructed
    /\ NoEntry
    /\ NoObs
    /\ NoCalc
    /\ keys_left = MaxKeys

\* player.py:75 cv2.waitKey returns a command only while the input has one
KeysAvailable == IF keys_left > 0 THEN Keys ELSE {"none"}

\* player.py:50-99: one iteration of the while loop, commands counted
PlayStepBudget ==
    /\ pc = "playing"
    /\ p_pc = "loop"
    /\ \E key \in KeysAvailable, readOk \in BOOLEAN, renderOk \in BOOLEAN :
        LET it == Iteration(key, readOk, renderOk)
        IN /\ PlayIter(it)
           /\ keys_left' = IF it.key \in Keys \ {"none"} THEN keys_left - 1
                                                         ELSE keys_left
    /\ UNCHANGED <<entry, exit_code, ctx, obs, calc>>

\* extractor.py:291-330 and player.py:26-106: the steps of the main thread
MainThread ==
    \/ Download
    \/ GetVideoMetadata
    \/ CheckWindow
    \/ StartThread
    \/ ExtractCall
    \/ ExtractReturn
    \/ PlayEnter
    \/ PlayStepBudget
    \/ Join
    \/ Report
    \/ Cleanup

\* extractor.py:166-223: the steps of extract_frames
SamplerThread ==
    \/ SamplerOpen
    \/ SamplerStep
    \/ SamplerFinish

NextLive ==
    \/ MainThread
    \/ SamplerThread
    \/ Interrupt

\* both threads are scheduled again and again; an interrupt may never come
SpecLive ==
    /\ InitLive
    /\ [][NextLive]_vars
    /\ WF_vars(MainThread)
    /\ WF_vars(SamplerThread)

\* ------------------------------------------------------------ properties
\* The Sampler opened the source and returned through the end of its loop
\* (extractor.py:215-219), not through the open failure or the except branch.
SamplerCompleted ==
    s_pc = "done" /\ "extraction_completed" \in log

NoReadFailure == ~IsSet(faults.read)
NoWriteFailure == faults.wfalse = {} /\ ~IsSet(faults.wraise)

\* absolute frame indices of the frame files on disk
SavedFrames == {files[i].frame : i \in 1..Len(files)}

\* { start_frame + k*interval_frames : k >= 0 } truncated at end_frame
Progression(c) ==
    {f \in 0..c.total_frames :
        /\ f < end_frame(c)
        /\ \E k \in 0..c.total_frames : f = start_frame(c) + k * interval_frames(c)}

\* C1 (as stated): whenever extract_frames has run to completion on a source on
\* which every read succeeded, with interval_frames >= 1, the set of frame
\* indices saved to disk is exactly the progression start_frame,
\* start_frame + interval_frames, ... below end_frame.
C1_SavedIsProgression_Original ==
    (SamplerCompleted /\ NoReadFailure /\ interval_frames(cfg) >= 1)
        => SavedFrames = Progression(cfg)

\* C1 (amended): no frame outside the progression is ever saved, and when every
\* read and every frame write succeeded the completed Sampler has saved exactly
\* the progression.
C1_SavedIsProgression ==
    /\ interval_frames(cfg) >= 1 => SavedFrames \subseteq Progression(cfg)
    /\ (SamplerCompleted /\ NoReadFailure /\ NoWriteFailure
            /\ interval_frames(cfg) >= 1)
        => SavedFrames = Progression(cfg)

\* C1 witness: a completed fault-free extraction over a window that starts after
\* frame 0, is cut by end_time before the end of the stream, and saves two frames
C1_Witness ==
    /\ SamplerCompleted /\ NoReadFailure /\ NoWriteFailure
    /\ start_frame(cfg) > 0
    /\ end_frame(cfg) < cfg.total_frames
    /\ interval_frames(cfg) >= 1
    /\ Cardinality(SavedFrames) >= 2
    /\ SavedFrames = Progression(cfg)

\* C2: at every point of an extraction the sequence_index values of the frame
\* files saved so far are 0,1,...,n-1 in the order saved.
C2_SequenceContiguous ==
    \A i \in 1..Len(files) : files[i].seq = i - 1

\* extractor.py:309 and 191-213: extract_frames run alone from start to end on
\* its own handle (position = frame_count), meeting the failures f
RECURSIVE SyncLoop(_, _, _, _, _)
SyncLoop(c, f, fc, sc, acc) ==
    IF ~(fc < end_frame(c)) THEN acc
    ELSE IF f.read = Some(fc) \/ ~(fc < c.total_frames) THEN acc
    ELSE IF interval_frames(c) = 0 THEN acc
    ELSE IF ~IsSampled(fc, c) THEN SyncLoop(c, f, fc + 1, sc, acc)
    ELSE IF f.wraise = Some(fc) THEN acc
    ELSE IF fc \in f.wfalse THEN SyncLoop(c, f, fc + 1, sc + 1, acc)
    ELSE SyncLoop(c, f, fc + 1, sc + 1,
                  Append(acc, [seq |-> sc, frame |-> fc, src |-> fc]))

SyncFiles(c, f) == SyncLoop(c, f, start_frame(c), 0, <<>>)

\* a step of the playback loop: it moved its handle or changed its locals
PlaybackMoved ==
    \/ caps'[PlayerCap] # caps[PlayerCap]
    \/ playerVars' # playerVars

\* C3: with or without playback, and whatever the interleaving and the playback
\* commands, a Sampler that opened the source ends with the frame files
\* (count, sequence_index, frame, content) that extract_frames produces when it
\* runs alone; no playback step changes the Sampler's handle position,
\* frame_count or saved_count.
C3_PlaybackIndependent ==
    /\ []((s_pc = "done" /\ "could_not_open" \notin log)
            => files = SyncFiles(cfg, faults))
    /\ [][PlaybackMoved =>
            /\ caps'[SamplerCap] = caps[SamplerCap]
            /\ frame_count' = frame_count
            /\ saved_count' = saved_count]_vars

\* C3 witness: a concurrent run that returned True after playback was paused,
\* moved and quit, with at least two frames saved
C3_Witness ==
    /\ cfg.play_video
    /\ pc = "returned" /\ ret = "true"
    /\ p_pc = "done" /\ paused /\ caps[PlayerCap] # current_frame
    /\ Len(files) >= 2


\* end_time is present (possibly 0) and does not exceed start_time
WindowEmpty(c) == IsSet(c.end_time) /\ c.end_time[1] <= c.start_time

\* C4: with end_time present (0 included) and end_time <= start_time, run()
\* returns False, neither the Sampler nor playback is ever started, and no frame
\* image, video_metadata.json or extraction_report.txt is produced.
C4_InvalidWindowRejected ==
    WindowEmpty(cfg) =>
        /\ pc = "returned" => ret = "false"
        /\ s_pc = "idle" /\ p_pc = "idle"
        /\ files = <<>> /\ metaWrites = 0 /\ reports = <<>>

\* C5 (as stated): once run() has returned, the downloaded file does not exist.
C5_TempFileAbsent_Original ==
    pc = "returned" => videoFile = "absent"

\* C5 (amended): once run() has returned, the downloaded file does not exist
\* unless the removal itself failed, which run() has logged as a warning.
C5_TempFileAbsent ==
    pc = "returned" => (videoFile = "absent" \/ "could_not_remove" \in log)

\* C5 witness: a download that failed after writing part of the file, and whose
\* partial file run() removed before returning False
C5_Witness ==
    /\ pc = "returned" /\ ret = "false"
    /\ {"download_error", "cleaned_up"} \subseteq log
    /\ videoFile = "absent"

\* C6: in concurrent mode report generation is entered, and a report exists,
\* only when the extraction thread has finished and playback has stopped.
C6_ReportAfterJoin ==
    (cfg.play_video /\ (pc = "report" \/ Len(reports) > 0))
        => (s_pc = "done" /\ p_pc = "done")

\* C6 witness: the coordinator is about to write the report of a concurrent run
\* in which playback ran and the Sampler saved frames
C6_Witness ==
    /\ cfg.play_video /\ cfg.create_report
    /\ pc = "report"
    /\ current_frame > 0 /\ ~is_playing
    /\ Len(files) >= 1

\* C7: when an interrupt hits while the Sampler or playback is active, both have
\* reached a terminal state by the time run() has returned, and (reports being
\* enabled) a summary report has been written.
C7_InterruptStopsTasks ==
    (pc = "returned" /\ interrupted = "tasks_active") =>
        /\ ~SamplerRunning /\ ~PlayerRunning
        /\ cfg.create_report => Len(reports) >= 1

\* C8: if the Sampler could not open the source, run() returns False and never
\* logs successful completion.
C8_OpenFailureAborts ==
    ("could_not_open" \in log) =>
        /\ "success" \notin log
        /\ pc = "returned" => ret = "false"

\* C9: after a failed frame write the saved-frame count still equals the number
\* of frame files written, the Sampler goes on to the end of its loop, and
\* frames_extracted is the number of successful writes.
C9_WriteFailureSkipped ==
    ~NoWriteFailure =>
        /\ saved_count = Len(files)
        /\ s_pc = "done" =>
              /\ "error_extracting" \notin log
              /\ s_ret = Some(Len(files))
              /\ metadata.frames_extracted = Some(Len(files))

\* C10: when interval_frames computes to 0 for a source that could be opened
\* (its frame rate was read), the run is rejected: no frame is saved, success is
\* never logged and run() does not return True.
C10_ZeroIntervalRejected ==
    (interval_frames(cfg) = 0 /\ metadata.present) =>
        /\ files = <<>>
        /\ "success" \notin log
        /\ pc = "returned" => ret = "false"


\* C11: when the entry point (cli.main or app.main) has ended the process, the
\* exit status is 0 exactly when run() returned True, and it is 1 in every
\* other case: arguments rejected by the entry point, download failure, window
\* rejected by run(), user interrupt.
C11_ExitCodeReflectsOutcome ==
    pc = "exited" =>
        /\ exit_code = Some(0) <=> ret = "true"
        /\ ret # "true" => exit_code = Some(1)

\* C12: video_metadata.json is written at most once, only when the Sampler has
\* reached a terminal state after running (so that frames_extracted is in the
\* serialized object), and exactly once by the time a run returns True.
C12_MetadataSerializedAtEnd ==
    /\ metaWrites <= 1
    /\ metaWrites >= 1 => s_pc \in {"done", "killed"}
    /\ (pc = "returned" /\ ret = "true") => metaWrites = 1


\* C13: when playback has ended, it ended by quit or by natural end and left
\* is_playing = False (the path that also releases the handle): a failing
\* render call neither ends playback nor leaves it half-stopped.
C13_RenderFailureIgnored ==
    p_pc = "done" => (~is_playing /\ obs.exit # "error")


\* C14: whenever the Sampler of an extractor built through the library API is in
\* its loop, the configuration in force has quality in [1, 100], start_time >= 0
\* and interval_seconds > 0.
C14_ConfigValidAtSampling ==
    (entry \in {"api", "with"} /\ s_pc = "loop") =>
        /\ cfg.quality \in MinQuality..MaxQuality
        /\ cfg.start_time >= 0
        /\ cfg.interval > 0


\* C15 (as stated): once a with block over an extractor has been left, normally
\* or by an exception of its body, the file at video_path (when set) does not
\* exist, and no exception of the cleanup leaves the block.
C15_ContextExitRemoves_Original ==
    pc = "with_left" =>
        /\ video_path => videoFile = "absent"
        /\ ctx.exc # "cleanup"

\* C15 (amended): once the with block has been left, the file at video_path
\* (when set) does not exist unless its removal failed, and a failed removal is
\* swallowed: the only exception that can leave the block is the body's.
C15_ContextExitRemoves ==
    pc = "with_left" =>
        /\ (video_path /\ ~ctx.remove_failed) => videoFile = "absent"
        /\ ctx.exc # "cleanup"

\* C15 witness: a body that pointed video_path at an existing file and then
\* raised; __exit__ removed the file and the body's exception leaves the block
C15_Witness ==
    /\ pc = "with_left"
    /\ ctx.exc = "body"
    /\ video_path /\ ctx.removed /\ videoFile = "absent"


\* floor and ceiling of the rational num/den, num >= 0, den > 0
Floor(num, den) == num \div den
Ceil(num, den) == (num + den - 1) \div den

\* m is an integer nearest to num/den (either neighbour on a tie)
IsNearest(m, num, den) ==
    LET d == m * den - num
    IN 2 * (IF d < 0 THEN -d ELSE d) <= den

\* C16: the interval_frames computed for frame rate f and interval_seconds is
\* the integer nearest to f * interval_seconds (not its truncation); with f = 10
\* and interval 0.19 s it is 2.
C16_IntervalRounded ==
    (IsSet(calc) /\ calc[1].args.op = "interval" /\ IsSet(calc[1].out)) =>
        IsNearest(calc[1].out[1].interval_frames,
                  calc[1].args.fps * calc[1].args.interval, ArithDen)

\* C17: the computed window is start_frame = floor(start_time * f) and
\* end_frame = min(N, ceil(end_time * f)) when end_time is set (0 included),
\* N otherwise.
C17_WindowFloorCeil ==
    (IsSet(calc) /\ calc[1].args.op = "window" /\ IsSet(calc[1].out)) =>
        LET a == calc[1].args
            o == calc[1].out[1]
        IN /\ o.start_frame = Floor(a.start_time * a.fps, ArithDen)
           /\ o.end_frame =
                 IF IsSet(a.end_time)
                   THEN Min(a.total_frames, Ceil(a.end_time[1] * a.fps, ArithDen))
                   ELSE a.total_frames


\* an iteration of the playback loop is about to run
InPlayLoop == pc = "playing" /\ p_pc = "loop"

\* C18: in every iteration that handles a command, from Playing and from
\* Paused alike: pause flips Playing <-> Paused, restart reseeks to start_frame
\* and leaves the state Playing, forward reseeks to
\* min(current + 10*frame_rate, frame_count - 1) and backward to
\* max(current - 10*frame_rate, 0) without changing Playing / Paused, and quit
\* leads to Stopped.
C18_TransitionsMatchTable ==
    [][InPlayLoop =>
        /\ obs'.key = "p" =>
              (paused' = ~paused /\ p_pc' = "loop")
        /\ obs'.key = "r" =>
              /\ caps'[PlayerCap] =
                    (IF cfg.start_time > 0
                       THEN (cfg.start_time * cfg.fps) \div TimeDen ELSE 0)
              /\ ~paused' /\ p_pc' = "loop"
        /\ obs'.key = "f" =>
              /\ caps'[PlayerCap] =
                    Min(current_frame' + SkipSeconds * cfg.fps, cfg.total_frames - 1)
              /\ paused' = paused /\ p_pc' = "loop"
        /\ obs'.key = "b" =>
              /\ caps'[PlayerCap] = Max(current_frame' - SkipSeconds * cfg.fps, 0)
              /\ paused' = paused /\ p_pc' = "loop"
        /\ obs'.key = "q" =>
              (p_pc' = "done" /\ ~is_playing' /\ paused' = paused)
    ]_vars

\* C18 witness: playback is going on after a forward command given while
\* Paused moved the handle by a full 10 seconds, short of the last frame
C18_Witness ==
    /\ p_pc = "loop" /\ paused
    /\ obs.key = "f" /\ ~obs.read
    /\ caps[PlayerCap] = current_frame + SkipSeconds * cfg.fps
    /\ caps[PlayerCap] < cfg.total_frames - 1

\* C19: an iteration that starts Paused reads no frame and renders nothing,
\* leaves current_frame alone, moves the handle only for restart / forward /
\* backward, and still polls the keyboard, so that each of q, p, r, f, b takes
\* effect.
C19_PausedHoldsFrame ==
    [][(InPlayLoop /\ paused) =>
        /\ ~obs'.read /\ obs'.rendered = NoneVal
        /\ current_frame' = current_frame
        /\ obs'.key \in Keys
        /\ obs'.key \notin {"r", "f", "b"} => caps' = caps
        /\ obs'.key = "q" => p_pc' = "done"
        /\ obs'.key = "p" => ~paused'
        /\ obs'.key = "r" => (~paused' /\ caps'[PlayerCap] = start_frame(cfg))
        /\ obs'.key = "f" => caps'[PlayerCap] = ForwardTarget(current_frame, cfg)
        /\ obs'.key = "b" => caps'[PlayerCap] = BackwardTarget(current_frame, cfg)
    ]_vars

\* C19 witness: still Paused after an iteration that read nothing and whose
\* backward command moved the handle behind the frame on display
C19_Witness ==
    /\ p_pc = "loop" /\ paused
    /\ obs.key = "b" /\ ~obs.read /\ obs.rendered = NoneVal
    /\ current_frame > 1
    /\ caps[PlayerCap] < current_frame

\* end_time * frame_rate <= n, for a frame number n
AtOrPastBound(n, c) == n * TimeDen >= c.end_time[1] * c.fps

\* C20: after an iteration that read (and whose render did not fail), the loop
\* has been left for a natural end exactly when the read signalled end of
\* stream or end_time is set (0 included) and current_frame >= end_time *
\* frame_rate; and no frame with index >= end_time * frame_rate is rendered.
C20_NaturalEndAtBound ==
    /\ (obs.read /\ obs.exit # "error") =>
          (obs.exit \in {"eos", "end_time"}
             <=> \/ obs.exit = "eos"
                 \/ IsSet(cfg.end_time) /\ AtOrPastBound(current_frame, cfg))
    /\ (IsSet(obs.rendered) /\ IsSet(cfg.end_time)) =>
          ~AtOrPastBound(obs.rendered[1], cfg)


\* an exception was caught inside extract_frames / inside play
SamplerErrorLogged == "error_extracting" \in log
PlayerErrorLogged == "error_playing" \in log

\* C21: an exception inside the Sampler or inside playback is logged and
\* becomes that task's outcome (the Sampler returns the count 0): the step that
\* catches it changes neither run()'s position or result nor the other task,
\* and a run that is not interrupted still joins both tasks, writes the report
\* (when enabled) and returns True.
C21_TaskErrorsContained ==
    /\ [](SamplerErrorLogged => (s_pc = "done" /\ s_ret = Some(0)))
    /\ []((pc = "returned" /\ interrupted = "no"
              /\ (SamplerErrorLogged \/ PlayerErrorLogged))
            => /\ ret = "true"
               /\ s_pc = "done"
               /\ cfg.play_video => p_pc = "done"
               /\ cfg.create_report => Len(reports) = 1)
    /\ [][(~SamplerErrorLogged /\ SamplerErrorLogged') =>
            /\ pc' = pc /\ ret' = ret
            /\ playerVars' = playerVars
            /\ caps'[PlayerCap] = caps[PlayerCap]]_vars
    /\ [][(~PlayerErrorLogged /\ PlayerErrorLogged') =>
            /\ pc' = "join" /\ ret' = ret
            /\ samplerVars' = samplerVars
            /\ caps'[SamplerCap] = caps[SamplerCap]]_vars

\* C21 witness: a concurrent run returned True with its report although the
\* Sampler's second frame write raised and the first render of playback raised
C21_Witness ==
    /\ pc = "returned" /\ ret = "true" /\ interrupted = "no"
    /\ SamplerErrorLogged /\ PlayerErrorLogged
    /\ Len(files) = 1
    /\ Len(reports) = 1


\* C22: a frame wider than a set max_width is saved with width = max_width and
\* height the integer nearest to height * max_width / width; any other frame
\* is saved with its original size.
C22_DownscaleRounded ==
    (IsSet(calc) /\ calc[1].args.op = "resize" /\ IsSet(calc[1].out)) =>
        LET a == calc[1].args
            o == calc[1].out[1]
        IN IF IsSet(a.max_width) /\ a.width > a.max_width[1]
             THEN /\ o.width = a.max_width[1]
                  /\ IsNearest(o.height, a.height * a.max_width[1], a.width)
             ELSE o.width = a.width /\ o.height = a.height


\* C23: while the Sampler is in a non-terminal state the downloaded file is on
\* disk: the cleanup of run() removes it only after the Sampler has finished.
C23_FileKeptWhileSampling ==
    SamplerRunning => videoFile # "absent"

\* C24: a written summary report shows as 'Frames Extracted' the number of
\* frame files the Sampler wrote, also when the Sampler ended in its except
\* branch after saving frames (runs in which a write returned False, the
\* subject of C9, are left aside).
C24_ReportCountsFiles ==
    (Len(reports) >= 1 /\ faults.wfalse = {}) =>
        reports[Len(reports)] = Len(files)


\* the handle position at the moment the key of the coming iteration is
\* handled: where it is now when Paused, one frame further after a read
PositionAtCommand == IF paused THEN caps[PlayerCap] ELSE caps[PlayerCap] + 1

\* C25: every forward / backward command moves the handle by 10 seconds from
\* the handle's actual position at the moment of the command (clamped to
\* [0, frame_count - 1]), so that consecutive forward commands given while
\* Paused add up.
C25_SkipFromHandlePosition ==
    [][InPlayLoop =>
        /\ obs'.key = "f" =>
              caps'[PlayerCap] =
                Min(PositionAtCommand + SkipSeconds * cfg.fps, cfg.total_frames - 1)
        /\ obs'.key = "b" =>
              caps'[PlayerCap] = Max(PositionAtCommand - SkipSeconds * cfg.fps, 0)
    ]_vars


\* from some point on playback is never left Paused
InputSettlesUnpaused == <>[](p_pc = "loop" => ~paused)

\* frames the Sampler's handle has moved past since the seek to start_frame
SamplerReads == caps[SamplerCap] - start_frame(cfg)

\* C26: the Sampler never reads more than end_frame - start_frame frames; and
\* when the input delivers finitely many commands and does not leave playback
\* Paused for ever, under fair scheduling run() eventually returns and a join
\* that has begun eventually ends.
C26_RunTerminates ==
    /\ []((s_pc \in {"loop", "done"} /\ "could_not_open" \notin log)
            => SamplerReads <= Max(0, end_frame(cfg) - start_frame(cfg)))
    /\ InputSettlesUnpaused =>
          /\ <>(pc = "returned")
          /\ (pc = "join") ~> (pc # "join")

\* C26 witness: a concurrent run returned True after playback took every
\* command the input had, and the Sampler stopped at an end_frame that lies
\* before the end of the stream having saved a frame
C26_Witness ==
    /\ pc = "returned" /\ ret = "true"
    /\ cfg.play_video /\ p_pc = "done" /\ keys_left = 0
    /\ end_frame(cfg) < cfg.total_frames
    /\ SamplerReads = end_frame(cfg) - start_frame(cfg)
    /\ Len(files) >= 1

====
